---------------------------- MODULE Spec2Model ----------------------------
(***************************************************************************)
(* A model of the devvit_logs tool (src/src/tools/logs.ts): the handler    *)
(* validates its parameters, builds the argument vector, spawns `devvit    *)
(* logs`, accumulates stdout/stderr, arms a kill timer and resolves a      *)
(* promise from the child's 'error' or 'close' event.                      *)
(*                                                                         *)
(* JavaScript strings are sequences of UTF-16 code units (integers), a     *)
(* Buffer is a sequence of bytes.  An object with optional fields is a     *)
(* function whose domain holds the fields that are present.                *)
(***************************************************************************)
EXTENDS Integers, Sequences, FiniteSets

(***************************************************************************)
(* Bounds of the model.                                                    *)
(***************************************************************************)
\* The number of 'data' events (stdout and stderr together) one child emits.
MaxData == 2

(***************************************************************************)
(* Program constants.                                                      *)
(***************************************************************************)
\* logs.ts:111  const MAX_LENGTH = 2_000
MAX_LENGTH == 2000

\* logs.ts:113  the code unit of the marker that `…${...}` puts in front
Ellipsis == 8230

\* logs.ts:45
AppNameRequired ==
  <<65, 112, 112, 32, 110, 97, 109, 101, 32, 105, 115, 32, 114, 101, 113,
    117, 105, 114, 101, 100, 32, 119, 104, 101, 110, 32, 114, 117, 110, 110,
    105, 110, 103, 32, 111, 117, 116, 115, 105, 100, 101, 32, 111, 102, 32,
    97, 32, 68, 101, 118, 118, 105, 116, 32, 119, 111, 114, 107, 115, 112,
    97, 99, 101>>

\* logs.ts:92  "Failed to execute devvit logs: "
FailedToExecute ==
  <<70, 97, 105, 108, 101, 100, 32, 116, 111, 32, 101, 120, 101, 99, 117,
    116, 101, 32, 100, 101, 118, 118, 105, 116, 32, 108, 111, 103, 115, 58,
    32>>

\* logs.ts:121  "No log output returned."
NoLogOutput ==
  <<78, 111, 32, 108, 111, 103, 32, 111, 117, 116, 112, 117, 116, 32, 114,
    101, 116, 117, 114, 110, 101, 100, 46>>

\* logs.ts:132  "Unknown error"
UnknownError ==
  <<85, 110, 107, 110, 111, 119, 110, 32, 101, 114, 114, 111, 114>>

(***************************************************************************)
(* The environment: invocations, inputs, what the child can do.            *)
(***************************************************************************)
Invocations == {"inv1", "inv2"}

\* What resolveRepoRoot() returns when no workspace root is found.
Undefined == "<undefined>"

WorkspaceRoot == "/home/dev/my-app"

\* JavaScript values that are a number or null (the `code` of 'close').
Num(n) == [type |-> "number", value |-> n]

Null == [type |-> "null"]

\* Exit codes of a child that ran: success, failure, terminated by a signal.
ExitCodes == {Num(0), Num(1), Null}

\* The errors for which spawn() emits 'error' instead of running the child:
\* "spawn devvit ENOENT" and "spawn devvit EACCES", with their errno.
ENOENT ==
  [message |-> <<115, 112, 97, 119, 110, 32, 100, 101, 118, 118, 105, 116, 32,
                 69, 78, 79, 69, 78, 84>>,
   errno |-> -2]

EACCES ==
  [message |-> <<115, 112, 97, 119, 110, 32, 100, 101, 118, 118, 105, 116, 32,
                 69, 65, 67, 67, 69, 83>>,
   errno |-> -13]

SpawnErrors == {ENOENT, EACCES}

NoError == [message |-> <<>>, errno |-> 0]

\* The chunks (Buffers of bytes) a child writes: "hello", a chunk of exactly
\* MAX_LENGTH bytes "xx...x", and the two bytes of "é" (C3 A9) split over two
\* chunks.
Hello == <<104, 101, 108, 108, 111>>

Big == [k \in 1..MAX_LENGTH |-> 120]

Lead == <<195>>

Trail == <<169>>

ChunkSet == {Hello, Big, Lead, Trail}

\* The tool inputs of the examples in the tool's description (logs.ts:14-15),
\* without an app, with an empty app and with an app.
Inputs ==
  { [subreddit |-> "mySubreddit"],
    [subreddit |-> "mySubreddit", app |-> ""],
    [subreddit |-> "r/myTestSubreddit", app |-> "my-app", json |-> TRUE,
     since |-> "15m"] }

\* Every shape of tool input the schema accepts, up to the values: each
\* optional field is absent ({}) or present with one of its values, a string
\* field also with the empty string.
OptionalFields ==
  [app : {{}, {""}, {"my-app"}},
   config : {{}, {""}, {"devvit.yaml"}},
   connect : {{}, {TRUE}, {FALSE}},
   dateformat : {{}, {""}, {"HH:mm"}},
   json : {{}, {TRUE}, {FALSE}},
   since : {{}, {""}, {"15m"}},
   verbose : {{}, {TRUE}, {FALSE}}]

InputOf(opt) ==
  [k \in {"subreddit"} \cup {f \in DOMAIN opt : opt[f] # {}} |->
     IF k = "subreddit" THEN "mySubreddit" ELSE CHOOSE v \in opt[k] : TRUE]

AllInputs == {InputOf(opt) : opt \in OptionalFields}

(***************************************************************************)
(* Pure functions of the program.                                          *)
(***************************************************************************)
\* Buffer.prototype.toString(): UTF-8 decoding.  A byte below 128 is itself,
\* a two-byte sequence (lead 0xC2..0xDF, continuation 0x80..0xBF) is one code
\* unit, and a byte that is part of no complete sequence becomes U+FFFD.
\* (The chunks of the model hold no byte of a longer sequence.)
IsLead(b) == b >= 194 /\ b <= 223

IsContinuation(b) == b >= 128 /\ b <= 191

ToString(bytes) ==
  LET n == Len(bytes)
      Skip == -1
      unit == [k \in 1..n |->
                 IF bytes[k] < 128 THEN bytes[k]
                 ELSE IF IsLead(bytes[k]) /\ k < n /\ IsContinuation(bytes[k + 1])
                   THEN (bytes[k] - 192) * 64 + (bytes[k + 1] - 128)
                 ELSE IF IsContinuation(bytes[k]) /\ k > 1 /\ IsLead(bytes[k - 1])
                   THEN Skip
                 ELSE 65533]
      Kept(u) == u # Skip
  IN  SelectSeq(unit, Kept)

\* chunk.toString() of every chunk of ChunkSet, computed once.
Decoded == [chunk \in ChunkSet |-> ToString(chunk)]

\* The truthiness of a string-or-undefined value: `if (app)`, `!repoRoot`.
Truthy(v) == v # Undefined /\ v # ""

\* The value of an optional field, undefined when it is absent.
Field(obj, k) == IF k \in DOMAIN obj THEN obj[k] ELSE Undefined

\* A schema whose verbose defaults to false.
ParseInputVerboseOff(raw) ==
  [k \in DOMAIN raw \cup {"connect", "json", "verbose"} |->
     IF k \in DOMAIN raw THEN raw[k] ELSE FALSE]

\* inputSchema.parse: the boolean fields get their defaults.
ParseInput(raw) ==
  [k \in DOMAIN raw \cup {"connect", "json", "verbose"} |->
     IF k \in DOMAIN raw THEN raw[k]
     ELSE IF k = "verbose" THEN TRUE ELSE FALSE]

\* A validation with || for &&: it rejects when either is missing.
RejectsEither(params, root) == ~Truthy(root) \/ ~Truthy(Field(params, "app"))

\* handler, logs.ts:40: the one validation rule.
Rejects(params, root) == ~Truthy(root) /\ ~Truthy(Field(params, "app"))

\* An argument vector with the app name pushed after the flags.
BuildArgsAppLast(params) ==
  <<"logs", params.subreddit>>
    \o (IF Truthy(Field(params, "config"))
          THEN <<"--config", params.config>> ELSE <<>>)
    \o (IF params.connect THEN <<"--connect">> ELSE <<>>)
    \o (IF Truthy(Field(params, "dateformat"))
          THEN <<"--dateformat", params.dateformat>> ELSE <<>>)
    \o (IF params.json THEN <<"--json">> ELSE <<>>)
    \o (IF Truthy(Field(params, "since"))
          THEN <<"--since", params.since>> ELSE <<>>)
    \o (IF params.verbose THEN <<"--verbose">> ELSE <<>>)
    \o (IF Truthy(Field(params, "app")) THEN <<params.app>> ELSE <<>>)

\* An argument vector with --json pushed first among the flags.
BuildArgsJsonFirst(params) ==
  <<"logs", params.subreddit>>
    \o (IF Truthy(Field(params, "app")) THEN <<params.app>> ELSE <<>>)
    \o (IF params.json THEN <<"--json">> ELSE <<>>)
    \o (IF Truthy(Field(params, "config"))
          THEN <<"--config", params.config>> ELSE <<>>)
    \o (IF params.connect THEN <<"--connect">> ELSE <<>>)
    \o (IF Truthy(Field(params, "dateformat"))
          THEN <<"--dateformat", params.dateformat>> ELSE <<>>)
    \o (IF Truthy(Field(params, "since"))
          THEN <<"--since", params.since>> ELSE <<>>)
    \o (IF params.verbose THEN <<"--verbose">> ELSE <<>>)

\* handler, logs.ts:37 and 52-60: the argument vector.
BuildArgs(params) ==
  <<"logs", params.subreddit>>
    \o (IF Truthy(Field(params, "app")) THEN <<params.app>> ELSE <<>>)
    \o (IF Truthy(Field(params, "config"))
          THEN <<"--config", params.config>> ELSE <<>>)
    \o (IF params.connect THEN <<"--connect">> ELSE <<>>)
    \o (IF Truthy(Field(params, "dateformat"))
          THEN <<"--dateformat", params.dateformat>> ELSE <<>>)
    \o (IF params.json THEN <<"--json">> ELSE <<>>)
    \o (IF Truthy(Field(params, "since"))
          THEN <<"--since", params.since>> ELSE <<>>)
    \o (IF params.verbose THEN <<"--verbose">> ELSE <<>>)

\* The Result Envelope.
Envelope(text, isError) ==
  [content |-> <<[type |-> "text", text |-> text]>>, isError |-> isError]

\* A reject envelope without its flag.
RejectEnvelopeNoFlag == Envelope(AppNameRequired, FALSE)

\* logs.ts:41-49
RejectEnvelope == Envelope(AppNameRequired, TRUE)

\* An error envelope without its flag.
ErrorEnvelopeNoFlag(error) == Envelope(FailedToExecute \o error.message, FALSE)

\* logs.ts:88-96
ErrorEnvelope(error) == Envelope(FailedToExecute \o error.message, TRUE)

\* `!code` for `code === 0`: null counts as success.
SucceededFalsy(code) == code.type = "null" \/ code.value = 0

\* logs.ts:108  const succeeded = code === 0
Succeeded(code) == code.type = "number" /\ code.value = 0

\* A truncation that keeps the head: slice(0, MAX_LENGTH).
TruncateHead(str) ==
  IF Len(str) > MAX_LENGTH
    THEN <<Ellipsis>> \o SubSeq(str, 1, MAX_LENGTH)
    ELSE str

\* logs.ts:112-113  str.slice(-MAX_LENGTH) keeps the last MAX_LENGTH units.
Truncate(str) ==
  IF Len(str) > MAX_LENGTH
    THEN <<Ellipsis>> \o SubSeq(str, Len(str) - MAX_LENGTH + 1, Len(str))
    ELSE str

\* a || b on strings: the empty string is falsy.
Or(a, b) == IF a # <<>> THEN a ELSE b

\* A close classified by what the child wrote to stderr, not by its code.
CloseEnvelopeByStderr(code, out, err) ==
  IF err = <<>>
    THEN Envelope(Or(Truncate(out), NoLogOutput), FALSE)
    ELSE Envelope(Truncate(Or(err, Or(out, UnknownError))), TRUE)

\* A success text that prefers stderr.
CloseEnvelopeStderrFirst(code, out, err) ==
  IF Succeeded(code)
    THEN Envelope(Or(Truncate(Or(err, out)), NoLogOutput), FALSE)
    ELSE Envelope(Truncate(Or(err, Or(out, UnknownError))), TRUE)

\* A failure text that prefers stdout.
CloseEnvelopeStdoutFirst(code, out, err) ==
  IF Succeeded(code)
    THEN Envelope(Or(Truncate(out), NoLogOutput), FALSE)
    ELSE Envelope(Truncate(Or(out, Or(err, UnknownError))), TRUE)

\* A close handler without its placeholders: an empty buffer is emitted as is.
CloseEnvelopeNoPlaceholder(code, out, err) ==
  IF Succeeded(code)
    THEN Envelope(Truncate(out), FALSE)
    ELSE Envelope(Truncate(Or(err, out)), TRUE)

\* logs.ts:115-137
CloseEnvelope(code, out, err) ==
  IF Succeeded(code)
    THEN Envelope(Or(Truncate(out), NoLogOutput), FALSE)
    ELSE Envelope(Truncate(Or(err, Or(out, UnknownError))), TRUE)

(***************************************************************************)
(* State.  Every variable is a function of the invocation: the buffers,    *)
(* the timer and the promise are locals of one call of the handler.        *)
(***************************************************************************)
VARIABLES
  input,        \* the tool input of the invocation
  repoRoot,     \* what resolveRepoRoot() returns for it
  pc,           \* "off", "idle", "awaiting" (the await at 64), "returned"
  spawned,      \* the argument vectors of the spawn() calls made, in order
  child,        \* "none", "failing" (spawn failed, 'error' queued),
                \* "errored" ('error' emitted, 'close' queued), "running",
                \* "exited" (ended, 'close' not yet emitted), "closed"
  spawnError,   \* the error of a failed spawn
  exitCode,     \* the code 'close' will carry
  signals,      \* the SIGINTs delivered to the child process
  stdoutData,   \* logs.ts:71
  stderrData,   \* logs.ts:72
  stdoutBytes,  \* the bytes of the chunks child.stdout delivered, in order
  stderrBytes,  \* the bytes of the chunks child.stderr delivered, in order
  dataEvents,   \* 'data' events emitted so far
  timeout,      \* logs.ts:101: "unset", "pending", "fired", "cleared"
  promise,      \* logs.ts:64: state "none", "pending" or "fulfilled"
  resolveCalls, \* the handlers that called resolve(), in order
  returned      \* the envelopes handed to the caller, in order

vars == <<input, repoRoot, pc, spawned, child, spawnError, exitCode, signals,
          stdoutData, stderrData, stdoutBytes, stderrBytes, dataEvents,
          timeout, promise, resolveCalls, returned>>

NoPromise == [state |-> "none"]

Pending == [state |-> "pending"]

Fulfilled(value) == [state |-> "fulfilled", value |-> value]

Settled(i) == promise[i].state = "fulfilled"

(***************************************************************************)
(* Init: no invocation has started.  Invocation inv1 is about to be made,  *)
(* with any of the inputs and with or without a workspace root.            *)
(***************************************************************************)
\* The invocations of `active` are about to be made, each with one of
\* `inputs`; `emitted` is the number of 'data' events counted as spent.
InitWith(active, inputs, emitted) ==
  /\ \E in \in [active -> inputs], root \in [active -> {Undefined, WorkspaceRoot}] :
       /\ input = [i \in Invocations |->
                     IF i \in active THEN in[i] ELSE [subreddit |-> "mySubreddit"]]
       /\ repoRoot = [i \in Invocations |->
                        IF i \in active THEN root[i] ELSE Undefined]
  /\ pc = [i \in Invocations |-> IF i \in active THEN "idle" ELSE "off"]
  /\ spawned = [i \in Invocations |-> <<>>]
  /\ child = [i \in Invocations |-> "none"]
  /\ spawnError = [i \in Invocations |-> NoError]
  /\ exitCode = [i \in Invocations |-> Null]
  /\ signals = [i \in Invocations |-> 0]
  /\ stdoutData = [i \in Invocations |-> <<>>]
  /\ stderrData = [i \in Invocations |-> <<>>]
  /\ stdoutBytes = [i \in Invocations |-> <<>>]
  /\ stderrBytes = [i \in Invocations |-> <<>>]
  /\ dataEvents = [i \in Invocations |-> emitted]
  /\ timeout = [i \in Invocations |-> "unset"]
  /\ promise = [i \in Invocations |-> NoPromise]
  /\ resolveCalls = [i \in Invocations |-> <<>>]
  /\ returned = [i \in Invocations |-> <<>>]

InitFor(active) == InitWith(active, Inputs, 0)

Init == InitFor({"inv1"})

(***************************************************************************)
(* Actions.                                                                *)
(***************************************************************************)
\* A resolve() without the settle-once guard: every call hands its value on.
ResolveEveryCall(i, value, by) ==
  /\ resolveCalls' = [resolveCalls EXCEPT ![i] = Append(@, by)]
  /\ promise' = [promise EXCEPT ![i] = Fulfilled(value)]
  /\ returned' = [returned EXCEPT ![i] = Append(@, value)]
  /\ pc' = [pc EXCEPT ![i] = "returned"]

\* resolve(value) of the promise of logs.ts:64, called by handler `by`.  A
\* promise settles once: the first call fulfils it and resumes the awaiting
\* handler, which returns the value; a later call has no effect.
Resolve(i, value, by) ==
  /\ resolveCalls' = [resolveCalls EXCEPT ![i] = Append(@, by)]
  /\ IF promise[i].state = "pending"
       THEN /\ promise' = [promise EXCEPT ![i] = Fulfilled(value)]
            /\ returned' = [returned EXCEPT ![i] = Append(@, value)]
            /\ pc' = [pc EXCEPT ![i] = "returned"]
       ELSE UNCHANGED <<promise, returned, pc>>

\* clearTimeout(timeout): cancels a timer that has not fired.
ClearTimeout(i) ==
  timeout' = [timeout EXCEPT ![i] = IF @ = "pending" THEN "cleared" ELSE @]

\* A kill that sends nothing.
KillNothing(i) == UNCHANGED signals

\* child.kill('SIGINT'): the signal goes to the process while Node holds its
\* handle, that is until its exit has been reported.
Kill(i) ==
  signals' = [signals EXCEPT
                ![i] = IF child[i] \in {"running", "exited"} THEN @ + 1 ELSE @]

\* logs.ts:35-107: the handler up to its await.  It rejects, or spawns the
\* child (which starts, or fails to start with `error`), registers the
\* listeners and arms the timer.
Handler(i) ==
  /\ pc[i] = "idle"
  /\ LET params == ParseInput(input[i])
     IN  IF Rejects(params, repoRoot[i])
           THEN /\ returned' = [returned EXCEPT ![i] = Append(@, RejectEnvelope)]
                /\ pc' = [pc EXCEPT ![i] = "returned"]
                /\ UNCHANGED <<spawned, child, spawnError, exitCode, timeout,
                               promise>>
           ELSE /\ spawned' = [spawned EXCEPT ![i] = Append(@, BuildArgs(params))]
                /\ \E error \in SpawnErrors \cup {NoError} :
                     /\ spawnError' = [spawnError EXCEPT ![i] = error]
                     /\ child' = [child EXCEPT
                          ![i] = IF error = NoError THEN "running" ELSE "failing"]
                     /\ exitCode' = [exitCode EXCEPT
                          ![i] = IF error = NoError THEN @ ELSE Num(error.errno)]
                /\ timeout' = [timeout EXCEPT ![i] = "pending"]
                /\ promise' = [promise EXCEPT ![i] = Pending]
                /\ pc' = [pc EXCEPT ![i] = "awaiting"]
                /\ UNCHANGED returned
  /\ UNCHANGED <<input, repoRoot, signals, stdoutData, stderrData,
                 stdoutBytes, stderrBytes, dataEvents, resolveCalls>>

\* A stdout listener appending to one buffer shared by every invocation, as a
\* module-level `stdoutData` would be.
StdoutDataShared(i, chunk) ==
  /\ child[i] \in {"running", "exited"}
  /\ dataEvents[i] < MaxData
  /\ dataEvents' = [dataEvents EXCEPT ![i] = @ + 1]
  /\ stdoutData' = [j \in Invocations |-> stdoutData[j] \o Decoded[chunk]]
  /\ stdoutBytes' = [stdoutBytes EXCEPT ![i] = @ \o chunk]
  /\ UNCHANGED <<input, repoRoot, pc, spawned, child, spawnError, exitCode,
                 signals, stderrData, stderrBytes, timeout, promise,
                 resolveCalls, returned>>

\* logs.ts:75-77: child.stdout.on('data').  Data arrives while the child runs
\* and, from the pipe, after it ended until 'close'.
StdoutData(i, chunk) ==
  /\ child[i] \in {"running", "exited"}
  /\ dataEvents[i] < MaxData
  /\ dataEvents' = [dataEvents EXCEPT ![i] = @ + 1]
  /\ stdoutData' = [stdoutData EXCEPT ![i] = @ \o Decoded[chunk]]
  /\ stdoutBytes' = [stdoutBytes EXCEPT ![i] = @ \o chunk]
  /\ UNCHANGED <<input, repoRoot, pc, spawned, child, spawnError, exitCode,
                 signals, stderrData, stderrBytes, timeout, promise,
                 resolveCalls, returned>>

\* logs.ts:80-82: child.stderr.on('data').
StderrData(i, chunk) ==
  /\ child[i] \in {"running", "exited"}
  /\ dataEvents[i] < MaxData
  /\ dataEvents' = [dataEvents EXCEPT ![i] = @ + 1]
  /\ stderrData' = [stderrData EXCEPT ![i] = @ \o Decoded[chunk]]
  /\ stderrBytes' = [stderrBytes EXCEPT ![i] = @ \o chunk]
  /\ UNCHANGED <<input, repoRoot, pc, spawned, child, spawnError, exitCode,
                 signals, stdoutData, stdoutBytes, timeout, promise,
                 resolveCalls, returned>>

\* The child process ends, by itself or on the signal, with `code`.
ChildExit(i, code) ==
  /\ child[i] = "running"
  /\ child' = [child EXCEPT ![i] = "exited"]
  /\ exitCode' = [exitCode EXCEPT ![i] = code]
  /\ UNCHANGED <<input, repoRoot, pc, spawned, spawnError, signals,
                 stdoutData, stderrData, stdoutBytes, stderrBytes, dataEvents,
                 timeout, promise, resolveCalls, returned>>

\* An 'error' listener that retries: it spawns the command again.
OnErrorRespawns(i) ==
  /\ child[i] = "failing"
  /\ child' = [child EXCEPT ![i] = "errored"]
  /\ spawned' = [spawned EXCEPT
                   ![i] = Append(@, BuildArgs(ParseInput(input[i])))]
  /\ Resolve(i, ErrorEnvelope(spawnError[i]), "error")
  /\ UNCHANGED <<input, repoRoot, spawnError, exitCode, signals, stdoutData,
                 stderrData, stdoutBytes, stderrBytes, dataEvents, timeout>>

\* logs.ts:84-97: child.on('error'), emitted on the next tick of a failed
\* spawn; 'close' follows it.
OnError(i) ==
  /\ child[i] = "failing"
  /\ child' = [child EXCEPT ![i] = "errored"]
  /\ Resolve(i, ErrorEnvelope(spawnError[i]), "error")
  /\ UNCHANGED <<input, repoRoot, spawned, spawnError, exitCode, signals,
                 stdoutData, stderrData, stdoutBytes, stderrBytes, dataEvents,
                 timeout>>

\* A timer callback that resolves by itself, as a failed close would.
OnTimeoutResolves(i) ==
  /\ timeout[i] = "pending"
  /\ child[i] # "failing"
  /\ timeout' = [timeout EXCEPT ![i] = "fired"]
  /\ Kill(i)
  /\ Resolve(i, CloseEnvelope(Null, stdoutData[i], stderrData[i]), "timeout")
  /\ UNCHANGED <<input, repoRoot, spawned, child, spawnError, exitCode,
                 stdoutData, stderrData, stdoutBytes, stderrBytes,
                 dataEvents>>

\* logs.ts:101-104: the callback of the kill timer.  The next-tick queue is
\* drained before any timer, so a queued 'error' is emitted first.
OnTimeout(i) ==
  /\ timeout[i] = "pending"
  /\ child[i] # "failing"
  /\ timeout' = [timeout EXCEPT ![i] = "fired"]
  /\ Kill(i)
  /\ UNCHANGED <<input, repoRoot, pc, spawned, child, spawnError, exitCode,
                 stdoutData, stderrData, stdoutBytes, stderrBytes, dataEvents,
                 promise, resolveCalls, returned>>

\* logs.ts:106-138: child.on('close'), emitted once the process has ended (or
\* failed to start) and its stdio streams are closed.
OnClose(i) ==
  /\ child[i] \in {"exited", "errored"}
  /\ child' = [child EXCEPT ![i] = "closed"]
  /\ ClearTimeout(i)
  /\ Resolve(i, CloseEnvelope(exitCode[i], stdoutData[i], stderrData[i]),
             "close")
  /\ UNCHANGED <<input, repoRoot, spawned, spawnError, exitCode, signals,
                 stdoutData, stderrData, stdoutBytes, stderrBytes,
                 dataEvents>>

Next ==
  \E i \in Invocations :
    \/ Handler(i)
    \/ \E chunk \in ChunkSet : StdoutData(i, chunk)
    \/ \E chunk \in ChunkSet : StderrData(i, chunk)
    \/ \E code \in ExitCodes : ChildExit(i, code)
    \/ OnError(i)
    \/ OnTimeout(i)
    \/ OnClose(i)

Spec == Init /\ [][Next]_vars

(***************************************************************************)
(* The scheduling the event loop and the operating system give: a queued   *)
(* 'error' or 'close' is emitted, an armed timer fires, a call that was    *)
(* made runs, and a child that was sent SIGINT ends.  A child that is left *)
(* alone may run for ever.                                                 *)
(***************************************************************************)
Fairness ==
  \A i \in Invocations :
    /\ WF_vars(Handler(i))
    /\ WF_vars(OnError(i))
    /\ WF_vars(OnTimeout(i))
    /\ WF_vars(OnClose(i))
    /\ WF_vars(signals[i] > 0 /\ \E code \in ExitCodes : ChildExit(i, code))

FairSpec == Init /\ [][Next]_vars /\ Fairness

(***************************************************************************)
(* The handler alone, on every shape of input: the specification of the    *)
(* properties of the argument vector.                                      *)
(***************************************************************************)
InitArgs == InitWith({"inv1"}, AllInputs, 0)

NextArgs == \E i \in Invocations : Handler(i)

SpecArgs == InitArgs /\ [][NextArgs]_vars

(***************************************************************************)
(* Two invocations in flight on the one event loop, their events           *)
(* interleaved in every order.  Each child delivers one chunk at most.     *)
(***************************************************************************)
InputsTwo == {[subreddit |-> "mySubreddit"]}

InitTwo == InitWith(Invocations, InputsTwo, MaxData - 1)

SpecTwo == InitTwo /\ [][Next]_vars

(***************************************************************************)
(* Shorthands of the properties.                                           *)
(***************************************************************************)
\* The handler of invocation i has been called.
Invoked(i) == pc[i] \in {"awaiting", "returned"}

\* The caller of invocation i holds an envelope.
Delivered(i) == returned[i] # <<>>

\* The handler whose resolve() call settled the promise of invocation i.
ResolvedBy(i) == IF resolveCalls[i] = <<>> THEN "none" ELSE Head(resolveCalls[i])

\* The step is the callback of the kill timer of invocation i.
TimerExpires(i) == timeout[i] = "pending" /\ timeout'[i] = "fired"

\* The step is the 'close' listener of invocation i.
CloseHandled(i) == child[i] # "closed" /\ child'[i] = "closed"

\* The step is the 'error' listener of invocation i.
ErrorHandled(i) == child[i] = "failing" /\ child'[i] = "errored"

\* The text of the envelope the caller of invocation i holds.
Text(i) == returned[i][1].content[1].text

IsError(i) == returned[i][1].isError

(***************************************************************************)
(* C1  Exactly one Result Envelope per invocation: at most one envelope is *)
(* ever handed to the caller; it is the value of the one resolution path   *)
(* that settled the promise (the 'error' listener or the 'close' listener);*)
(* once handed over it never changes, whatever event comes later; and      *)
(* every invocation that was made gets its envelope.                       *)
(***************************************************************************)
C1_OneEnvelope ==
  \A i \in Invocations :
    /\ Len(returned[i]) <= 1
    /\ Delivered(i) <=> pc[i] = "returned"
    /\ Delivered(i) /\ spawned[i] # <<>> =>
         /\ promise[i] = Fulfilled(returned[i][1])
         /\ ResolvedBy(i) \in {"error", "close"}
         /\ ResolvedBy(i) = "error" => returned[i][1] = ErrorEnvelope(spawnError[i])
         /\ ResolvedBy(i) = "close" => spawnError[i] = NoError

C2_TimerProducesNoEnvelope ==
  /\ [][\A i \in Invocations :
          /\ TimerExpires(i) =>
               UNCHANGED <<promise, returned, resolveCalls, pc, child,
                           exitCode, stdoutData, stderrData, stdoutBytes,
                           stderrBytes>>
          /\ pc[i] = "awaiting" /\ returned'[i] # returned[i] =>
               CloseHandled(i) \/ ErrorHandled(i)]_vars
  /\ [](\A i \in Invocations :
          timeout[i] = "fired" /\ child[i] \in {"running", "exited"} =>
            ~Settled(i) /\ ~Delivered(i) /\ pc[i] = "awaiting")

\* The timer fired and signalled a child that is still running: nothing is
\* resolved.
C2_Witness ==
  /\ timeout["inv1"] = "fired"
  /\ signals["inv1"] = 1
  /\ child["inv1"] = "running"
  /\ promise["inv1"] = Pending

C4_ErrorBypassesTimeoutAndClose ==
  /\ [](\A i \in Invocations :
          child[i] = "errored" =>
            /\ returned[i] = <<ErrorEnvelope(spawnError[i])>>
            /\ IsError(i)
            /\ SubSeq(Text(i), Len(Text(i)) - Len(spawnError[i].message) + 1,
                      Len(Text(i))) = spawnError[i].message)
  /\ [][\A i \in Invocations :
          ResolvedBy(i) = "error" =>
            /\ signals'[i] = signals[i]
            /\ ~CloseHandled(i)
            /\ resolveCalls'[i] = resolveCalls[i]]_vars

(***************************************************************************)
(* C5  No dangling timer: once 'close' has been handled the timer callback *)
(* never runs and no SIGINT is sent, and when an invocation has ended, by  *)
(* whatever path, no timer is pending.  The 'error' listener ends the      *)
(* invocation and leaves the timer armed: the statement fails on it.       *)
(***************************************************************************)
C5_NoDanglingTimer ==
  /\ [][\A i \in Invocations :
          child[i] = "closed" =>
            /\ ~TimerExpires(i)
            /\ signals'[i] = signals[i]]_vars
  /\ [](\A i \in Invocations : pc[i] = "returned" => timeout[i] # "pending")

(***************************************************************************)
(* C6  The handler always ends by returning an envelope, and a failure     *)
(* yields isError true.  As claimed, a termination that the timeout        *)
(* brought about is a failure whatever the exit code: C6_AlwaysAnEnvelope  *)
(* states that, and fails on a child that closes with code 0 after the     *)
(* signal.  C6_AlwaysAnEnvelopeByCode is the statement that holds: every   *)
(* invocation gets its envelope, and a missing app name, a failed spawn    *)
(* and a close with a non-zero or null code (after a timeout too) give     *)
(* isError true.                                                           *)
(***************************************************************************)
Rejected(i) == pc[i] = "returned" /\ spawned[i] = <<>>

SpawnFailed(i) == spawnError[i] # NoError

AbnormalExit(i) == child[i] = "closed" /\ exitCode[i] # Num(0)

TimedOut(i) == signals[i] > 0

RejectedAtOnce(i) ==
  /\ returned[i] = <<RejectEnvelope>>
  /\ IsError(i) /\ Text(i) = AppNameRequired
  /\ pc[i] = "returned"
  /\ spawned[i] = <<>> /\ child[i] = "none"
  /\ timeout[i] = "unset" /\ promise[i] = NoPromise

NotRejected(i) ==
  /\ Len(spawned[i]) = 1
  /\ child[i] # "none" /\ timeout[i] # "unset"
  /\ Delivered(i) => returned[i][1] # RejectEnvelope

C7_RejectsWithoutApp ==
  \A i \in Invocations :
    Invoked(i) =>
      IF repoRoot[i] = Undefined /\ "app" \notin DOMAIN input[i]
        THEN RejectedAtOnce(i) ELSE NotRejected(i)

C7_RejectsWithoutAppName ==
  \A i \in Invocations :
    Invoked(i) =>
      IF repoRoot[i] = Undefined
           /\ ("app" \notin DOMAIN input[i] \/ input[i].app = "")
        THEN RejectedAtOnce(i) ELSE NotRejected(i)

\* {subreddit: "mySubreddit"} outside a workspace was rejected.
C7_Witness ==
  /\ input["inv1"] = [subreddit |-> "mySubreddit"]
  /\ repoRoot["inv1"] = Undefined
  /\ RejectedAtOnce("inv1")

(***************************************************************************)
(* C8  When 'close' resolves the invocation, isError is decided by the     *)
(* exit code alone: false for 0, true for any other code and for null,     *)
(* whatever the buffers hold and whether or not the timer fired.           *)
(***************************************************************************)
C8_ClassifiedByExitCode ==
  \A i \in Invocations :
    Delivered(i) /\ ResolvedBy(i) = "close" =>
      /\ exitCode[i] = Num(0) => ~IsError(i)
      /\ exitCode[i] # Num(0) => IsError(i)

\* A close with code null and an empty stderr, after the timer fired: an
\* error envelope, although only stdout holds text.
C8_Witness ==
  /\ ResolvedBy("inv1") = "close"
  /\ exitCode["inv1"] = Null
  /\ timeout["inv1"] = "fired"
  /\ stdoutData["inv1"] # <<>> /\ stderrData["inv1"] = <<>>
  /\ Delivered("inv1") /\ IsError("inv1")

(***************************************************************************)
(* C9  The timeout surfaces through the close handling.  As claimed, every *)
(* invocation whose timer sent SIGINT before the close gets isError true   *)
(* (C9_TimeoutIsError); a child that closes with code 0 after the signal   *)
(* gets a success envelope.  C9_TimeoutClassifiedByClose holds: such an    *)
(* invocation is resolved by the 'close' listener, with isError true when  *)
(* the code is non-zero or null and false when it is 0.                    *)
(***************************************************************************)
C9_TimeoutIsError ==
  \A i \in Invocations :
    TimedOut(i) /\ Delivered(i) => ResolvedBy(i) = "close" /\ IsError(i)

C9_TimeoutClassifiedByClose ==
  \A i \in Invocations :
    TimedOut(i) /\ Delivered(i) =>
      /\ ResolvedBy(i) = "close"
      /\ child[i] = "closed"
      /\ IsError(i) <=> exitCode[i] # Num(0)

\* The timer sent SIGINT, the child closed with code 1 having written to
\* stdout only, and the caller holds an error envelope.
C9_Witness ==
  /\ TimedOut("inv1")
  /\ exitCode["inv1"] = Num(1)
  /\ stderrData["inv1"] = <<>> /\ stdoutData["inv1"] = Hello
  /\ Delivered("inv1") /\ IsError("inv1")

(***************************************************************************)
(* C10  A close with code 0 gives isError false and the truncated stdout   *)
(* as text, or 'No log output returned.' when that is empty; stderr has no *)
(* part in it (stdout "hello" gives the text "hello").                     *)
(***************************************************************************)
C10_SuccessText ==
  \A i \in Invocations :
    Delivered(i) /\ ResolvedBy(i) = "close" /\ exitCode[i] = Num(0) =>
      /\ ~IsError(i)
      /\ Text(i) = IF Truncate(stdoutData[i]) = <<>>
                     THEN NoLogOutput ELSE Truncate(stdoutData[i])
      /\ stdoutData[i] = Hello => Text(i) = <<104, 101, 108, 108, 111>>

\* Code 0, stdout "hello", stderr not empty: the text is "hello".
C10_Witness ==
  /\ ResolvedBy("inv1") = "close"
  /\ exitCode["inv1"] = Num(0)
  /\ stdoutData["inv1"] = Hello
  /\ stderrData["inv1"] # <<>>
  /\ Delivered("inv1") /\ Text("inv1") = Hello

(***************************************************************************)
(* C11  A close with a non-zero or null code gives isError true and, as    *)
(* text, the truncation of the first of: stderr if it is not empty, stdout *)
(* if it is not empty, 'Unknown error' (stderr "hello" gives "hello", an   *)
(* empty stderr with stdout "hello" gives "hello").                        *)
(***************************************************************************)
FailureSource(i) ==
  IF stderrData[i] # <<>> THEN stderrData[i]
  ELSE IF stdoutData[i] # <<>> THEN stdoutData[i]
  ELSE UnknownError

C11_FailureText ==
  \A i \in Invocations :
    Delivered(i) /\ ResolvedBy(i) = "close" /\ exitCode[i] # Num(0) =>
      /\ IsError(i)
      /\ Text(i) = Truncate(FailureSource(i))
      /\ stderrData[i] = Hello => Text(i) = <<104, 101, 108, 108, 111>>
      /\ stderrData[i] = <<>> /\ stdoutData[i] # <<>> =>
           Text(i) = Truncate(stdoutData[i])
      /\ stderrData[i] = <<>> /\ stdoutData[i] = <<>> => Text(i) = UnknownError

\* Code 1 with stderr "hello" and a longer stdout: the text is "hello".
C11_Witness ==
  /\ ResolvedBy("inv1") = "close"
  /\ exitCode["inv1"] = Num(1)
  /\ stderrData["inv1"] = Hello
  /\ Len(stdoutData["inv1"]) = MAX_LENGTH
  /\ Delivered("inv1") /\ Text("inv1") = Hello

(***************************************************************************)
(* C12  Truncation keeps the tail: a text of more than 2000 units is       *)
(* emitted as the ellipsis followed by its last 2000 units, a text of at   *)
(* most 2000 units (2000 included) is emitted unchanged.  Stated of the    *)
(* text that the close handler emits for the buffer it chose.              *)
(***************************************************************************)
\* The buffer the close handler passes through truncate.
Emitted(i) == IF exitCode[i] = Num(0) THEN stdoutData[i] ELSE FailureSource(i)

C12_TruncationKeepsTail ==
  \A i \in Invocations :
    Delivered(i) /\ ResolvedBy(i) = "close" /\ Emitted(i) # <<>> =>
      LET buf == Emitted(i)
      IN  /\ MAX_LENGTH = 2000
          /\ Len(buf) <= 2000 => Text(i) = buf
          /\ Len(buf) > 2000 =>
               /\ Len(Text(i)) = 2001
               /\ Head(Text(i)) = Ellipsis
               /\ Tail(Text(i)) = SubSeq(buf, Len(buf) - 1999, Len(buf))

\* stdout "hello" followed by 2000 "x": the text is the ellipsis and the 2000
\* "x", "hello" is dropped.
C12_Witness ==
  /\ ResolvedBy("inv1") = "close"
  /\ exitCode["inv1"] = Num(0)
  /\ stdoutData["inv1"] = Hello \o Big
  /\ Delivered("inv1") /\ Text("inv1") = <<Ellipsis>> \o Big

\* A text of exactly 2000 units is emitted unchanged.
C12_WitnessExact ==
  /\ ResolvedBy("inv1") = "close"
  /\ stdoutData["inv1"] = Big /\ stderrData["inv1"] = <<>>
  /\ Delivered("inv1") /\ Text("inv1") = Big

(***************************************************************************)
(* The argument vector.                                                    *)
(***************************************************************************)
\* The flags of `devvit logs`, in the order the handler pushes them.
FlagOrder ==
  <<"--config", "--connect", "--dateformat", "--json", "--since", "--verbose">>

FlagNames == {FlagOrder[k] : k \in DOMAIN FlagOrder}

\* The argument vector invocation i passed to spawn.
Args(i) == spawned[i][1]

AppSet(i) == "app" \in DOMAIN input[i]

AppGiven(i) == Truthy(Field(input[i], "app"))

BeginsWithLogsSubreddit(i) ==
  /\ Len(spawned[i]) = 1
  /\ Len(Args(i)) >= 2
  /\ Args(i)[1] = "logs"
  /\ Args(i)[2] = input[i].subreddit

AppIsThird(i) ==
  /\ Len(Args(i)) >= 3
  /\ Args(i)[3] = input[i].app
  /\ \A k \in 1..3 : Args(i)[k] \notin FlagNames

\* C13 as stated: with subreddit set and either app set or a workspace root
\* resolved, the argument vector passed to spawn begins with
\* ['logs', subreddit] and, if app is set, app is its third element, before
\* any flag.  Refuted by app = '' (set, and accepted by the schema): outside a
\* workspace nothing is spawned, inside one the vector has no app element.
C13_AppIsThirdWhenSet ==
  \A i \in Invocations :
    Invoked(i) /\ (AppSet(i) \/ repoRoot[i] # Undefined) =>
      /\ BeginsWithLogsSubreddit(i)
      /\ AppSet(i) => AppIsThird(i)

\* C13, amended: with subreddit set and either a non-empty app or a
\* workspace root resolved, the argument vector passed to spawn begins with
\* ['logs', subreddit]; a non-empty app is its third element, before any
\* flag; with app absent or empty the vector has no app element, every
\* element after the subreddit being a flag or the value of a flag.
C13_AppIsThirdWhenGiven ==
  \A i \in Invocations :
    Invoked(i) /\ (AppGiven(i) \/ repoRoot[i] # Undefined) =>
      /\ BeginsWithLogsSubreddit(i)
      /\ AppGiven(i) => AppIsThird(i)
      /\ ~AppGiven(i) /\ Len(Args(i)) >= 3 => Args(i)[3] \in FlagNames

\* An app name was given with flags: the vector is longer than three.
C13_Witness ==
  \E i \in Invocations :
    /\ Invoked(i) /\ AppGiven(i) /\ Len(spawned[i]) = 1
    /\ Len(Args(i)) > 3
    /\ Args(i)[3] = "my-app"
    /\ Args(i)[4] = "--config"

\* An invocation that passed validation and spawned.
Spawned(i) == Invoked(i) /\ Len(spawned[i]) = 1

\* The positions of flag f in the argument vector of invocation i.
Positions(i, f) == {k \in 1..Len(Args(i)) : Args(i)[k] = f}

Positionals(i) == IF AppGiven(i) THEN 3 ELSE 2

\* The input field of a flag.
KeyOf(f) ==
  CASE f = "--config" -> "config"
    [] f = "--connect" -> "connect"
    [] f = "--dateformat" -> "dateformat"
    [] f = "--json" -> "json"
    [] f = "--since" -> "since"
    [] f = "--verbose" -> "verbose"

\* C14: whichever subset of config, connect, dateformat, json, since and
\* verbose is present/true, the flags --config, --connect, --dateformat,
\* --json, --since, --verbose appear in the argument vector in that relative
\* order, each at most once, and all after the positional arguments.
C14_FlagOrderFixed ==
  \A i \in Invocations :
    Spawned(i) =>
      /\ \A f \in FlagNames : Cardinality(Positions(i, f)) <= 1
      /\ \A a, b \in DOMAIN FlagOrder :
           a < b =>
             \A ka \in Positions(i, FlagOrder[a]), kb \in Positions(i, FlagOrder[b]) :
               ka < kb
      /\ \A f \in FlagNames : \A k \in Positions(i, f) : k > Positionals(i)
      /\ \A k \in 1..Positionals(i) : Args(i)[k] \notin FlagNames

\* All six flags were pushed, after an app name.
C14_Witness ==
  \E i \in Invocations :
    /\ Spawned(i) /\ AppGiven(i)
    /\ \A f \in FlagNames : Positions(i, f) # {}
    /\ Len(Args(i)) = 12

BooleanFlags == {"--connect", "--json", "--verbose"}

StringFlags == {"--config", "--dateformat", "--since"}

\* Position k is past the end of the vector or holds a flag.
EndOrFlag(i, k) == k > Len(Args(i)) \/ Args(i)[k] \in FlagNames

ExplicitlyTrue(i, key) == key \in DOMAIN input[i] /\ input[i][key] = TRUE

ExplicitlyFalse(i, key) == key \in DOMAIN input[i] /\ input[i][key] = FALSE

\* C15: a boolean flag (--connect, --json, --verbose) is in the argument
\* vector only when its parsed value is true, and what follows it is the next
\* flag or the end; a string flag (--config, --dateformat, --since) is there
\* only when its field is present, and is followed by exactly that value and
\* then by the next flag or the end; --verbose is emitted unless verbose is
\* explicitly false, --connect and --json exactly when explicitly true.
C15_FlagValues ==
  \A i \in Invocations :
    Spawned(i) =>
      /\ \A f \in BooleanFlags : \A k \in Positions(i, f) :
           /\ ParseInput(input[i])[KeyOf(f)] = TRUE
           /\ EndOrFlag(i, k + 1)
      /\ \A f \in StringFlags : \A k \in Positions(i, f) :
           /\ KeyOf(f) \in DOMAIN input[i]
           /\ k + 1 <= Len(Args(i))
           /\ Args(i)[k + 1] = input[i][KeyOf(f)]
           /\ EndOrFlag(i, k + 2)
      /\ Positions(i, "--verbose") # {} <=> ~ExplicitlyFalse(i, "verbose")
      /\ Positions(i, "--connect") # {} <=> ExplicitlyTrue(i, "connect")
      /\ Positions(i, "--json") # {} <=> ExplicitlyTrue(i, "json")

\* Only the subreddit was given: --verbose alone is emitted, by its default.
C15_Witness ==
  \E i \in Invocations :
    /\ Spawned(i)
    /\ DOMAIN input[i] = {"subreddit"}
    /\ Args(i) = <<"logs", "mySubreddit", "--verbose">>

\* String and boolean flags together, verbose switched off.
C15_WitnessValues ==
  \E i \in Invocations :
    /\ Spawned(i)
    /\ ExplicitlyFalse(i, "verbose")
    /\ Args(i) = <<"logs", "mySubreddit", "--config", "devvit.yaml",
                   "--connect", "--since", "15m">>

(***************************************************************************)
(* One spawn per invocation.                                               *)
(***************************************************************************)
\* C16: an invocation that passes validation has made exactly one spawn()
\* call from the handler's return to its await onwards, and no step after
\* it (an 'error', a timer expiry, a child's exit with any code, a 'close')
\* adds a spawn or changes the one made: nothing is retried.
C16_SpawnsExactlyOnce ==
  /\ [](\A i \in Invocations :
         /\ Len(spawned[i]) <= 1
         /\ Invoked(i) /\ ~Rejects(ParseInput(input[i]), repoRoot[i]) =>
              Len(spawned[i]) = 1)
  /\ [][\A i \in Invocations :
          spawned[i] # <<>> => spawned'[i] = spawned[i]]_vars

\* A failed spawn whose 'error' and 'close' were both handled: still one.
C16_Witness ==
  \E i \in Invocations :
    /\ SpawnFailed(i) /\ child[i] = "closed"
    /\ Delivered(i) /\ ResolvedBy(i) = "error"
    /\ Len(spawned[i]) = 1

\* The timer expired and the child ended without a code: still one.
C16_WitnessTimeout ==
  \E i \in Invocations :
    /\ TimedOut(i) /\ child[i] = "closed" /\ exitCode[i] = Null
    /\ Delivered(i)
    /\ Len(spawned[i]) = 1

(***************************************************************************)
(* Isolation of invocations.                                               *)
(***************************************************************************)
\* Everything invocation i owns: its buffers, timer, child and kill target,
\* promise and envelope.
Own(i) ==
  <<input[i], repoRoot[i], pc[i], spawned[i], child[i], spawnError[i],
    exitCode[i], signals[i], stdoutData[i], stderrData[i], stdoutBytes[i],
    stderrBytes[i], dataEvents[i], timeout[i], promise[i], resolveCalls[i],
    returned[i]>>

\* A step of invocation i: its handler, or one of its events.
EventOf(i) ==
  \/ Handler(i)
  \/ \E chunk \in ChunkSet : StdoutData(i, chunk)
  \/ \E chunk \in ChunkSet : StderrData(i, chunk)
  \/ \E code \in ExitCodes : ChildExit(i, code)
  \/ OnError(i)
  \/ OnTimeout(i)
  \/ OnClose(i)

\* C17: with two invocations interleaved on the event loop, the handler and
\* the data, exit, 'error', timer and 'close' events of one invocation leave
\* everything the other owns unchanged: its two buffers, its timer, its
\* child and the signals sent to it, its promise and its Result Envelope;
\* and the envelope 'close' delivers is built from its own buffers and code.
C17_Isolated ==
  /\ [][\A i \in Invocations :
          EventOf(i) => \A j \in Invocations \ {i} : Own(j)' = Own(j)]_vars
  /\ [](\A i \in Invocations :
         Delivered(i) /\ ResolvedBy(i) = "close" =>
           /\ returned[i] =
                <<CloseEnvelope(exitCode[i], stdoutData[i], stderrData[i])>>
           /\ stdoutData[i] \in {<<>>} \cup {Decoded[c] : c \in ChunkSet}
           /\ stdoutData[i] # <<>> => stdoutData[i] = Decoded[stdoutBytes[i]])

\* Both invocations ran to their 'close' with different output; only the
\* first was sent SIGINT, and only the second wrote to stderr.
C17_Witness ==
  /\ Delivered("inv1") /\ ResolvedBy("inv1") = "close"
  /\ Delivered("inv2") /\ ResolvedBy("inv2") = "close"
  /\ stdoutData["inv1"] = Decoded[Hello] /\ stderrData["inv1"] = <<>>
  /\ stdoutData["inv2"] = <<>> /\ stderrData["inv2"] = Decoded[Big]
  /\ signals["inv1"] = 1 /\ signals["inv2"] = 0
  /\ returned["inv1"] # returned["inv2"]

(***************************************************************************)
(* The buffers against what the streams delivered.                         *)
(***************************************************************************)
\* C18: when 'close' has been handled, the stdout buffer is the text of all
\* the stdout chunks received, concatenated in arrival order, and the stderr
\* buffer the text of all the stderr chunks, in every interleaving of the
\* two streams' data events.  Refuted: each chunk is decoded by itself, so a
\* character whose bytes are split between two chunks becomes two U+FFFD.
C18_BuffersAreConcatenation ==
  \A i \in Invocations :
    child[i] = "closed" =>
      /\ stdoutData[i] = ToString(stdoutBytes[i])
      /\ stderrData[i] = ToString(stderrBytes[i])

(***************************************************************************)
(* Success and failure envelopes.                                          *)
(***************************************************************************)
\* C19: an envelope with isError false is delivered only by the 'close'
\* listener of a child that started (no 'error' was handled before) and
\* closed with code 0; the envelope of a rejected invocation, of an
\* invocation whose 'error' was handled first, and of a close with a
\* non-zero or null code has isError true.
C19_SuccessOnlyOnCleanClose ==
  \A i \in Invocations :
    Delivered(i) =>
      /\ ~IsError(i) =>
           /\ ResolvedBy(i) = "close"
           /\ child[i] = "closed"
           /\ exitCode[i] = Num(0)
           /\ ~SpawnFailed(i)
      /\ Rejected(i) => IsError(i)
      /\ ResolvedBy(i) = "error" => IsError(i)
      /\ ResolvedBy(i) = "close" /\ exitCode[i] # Num(0) => IsError(i)
      /\ Rejected(i) \/ ResolvedBy(i) \in {"error", "close"}

\* A child that wrote to stderr and closed with code 0: a success envelope.
C19_Witness ==
  \E i \in Invocations :
    /\ Delivered(i) /\ ~IsError(i)
    /\ ResolvedBy(i) = "close" /\ exitCode[i] = Num(0)
    /\ stderrData[i] # <<>> /\ stdoutData[i] = <<>>
    /\ Text(i) = NoLogOutput

\* An 'error' handled first, the 'close' after it handled too: isError true.
C19_WitnessError ==
  \E i \in Invocations :
    /\ Delivered(i) /\ IsError(i)
    /\ ResolvedBy(i) = "error" /\ child[i] = "closed"
    /\ Len(resolveCalls[i]) = 2

\* The text of the envelope the 'close' listener of invocation i builds from
\* the code and the buffers as they are.
CloseText(i) ==
  CloseEnvelope(exitCode[i], stdoutData[i], stderrData[i]).content[1].text

\* C20: the text of every envelope the 'close' listener builds, whether it
\* is delivered or ignored after an 'error', has at least 1 and at most 2001
\* units (the ellipsis and the 2000 kept), on the success and the failure
\* branch and for every size of the two buffers.
C20_CloseTextLength ==
  \A i \in Invocations :
    /\ child[i] \in {"exited", "errored", "closed"} =>
         /\ Len(CloseText(i)) >= 1
         /\ Len(CloseText(i)) <= MAX_LENGTH + 1
         /\ MAX_LENGTH + 1 = 2001
    /\ Delivered(i) /\ ResolvedBy(i) = "close" =>
         /\ Text(i) = CloseText(i)
         /\ Len(Text(i)) \in 1..2001

\* The longest text: a failure with more than 2000 units on stderr.
C20_Witness ==
  \E i \in Invocations :
    /\ Delivered(i) /\ ResolvedBy(i) = "close" /\ IsError(i)
    /\ Len(stderrData[i]) > MAX_LENGTH
    /\ Len(Text(i)) = 2001

\* The shortest text: a success with one unit on stdout.
C20_WitnessShortest ==
  \E i \in Invocations :
    /\ Delivered(i) /\ ResolvedBy(i) = "close" /\ ~IsError(i)
    /\ Len(Text(i)) = 1

=============================================================================
